---- MODULE Spec2Model ----
(***************************************************************************)
(* The FHE debugger frontend (App.tsx): the graph translator dataToGraph   *)
(* and the App component with its two handlers, updateLine and             *)
(* updateSelection.                                                        *)
(*                                                                         *)
(* JavaScript values are tagged records, so that a property read on a      *)
(* string, on an object that lacks the key, or on undefined/null behaves   *)
(* as it does at run time.                                                 *)
(***************************************************************************)
EXTENDS Integers, Sequences, FiniteSets, TLC

VARIABLES
    data,          \* SpecTranslator: the argument handed to dataToGraph
    out,           \* SpecTranslator: what the call produced (Pending before it)
    pc,            \* App: "start" (before the first render), "mounted", "crashed"
    sampleData,    \* App: the payload parsed at line 171 and handed to dataToGraph
    selectedLine,  \* App: useState<number>(0)
    currGraph,     \* App: useState(exGraph)
    selected,      \* App: useState<SelectionT | null>(null)
    raised,        \* the exception the most recent render or handler call threw
    lastCall,      \* history: the most recent handler call, its argument and
                   \*          the state it was made in
    clicked        \* history: the updateLine calls so far, each with the
                   \*          graph it left in currGraph

transVars == <<data, out>>
appVars == <<pc, sampleData, selectedLine, currGraph, selected, raised,
             lastCall, clicked>>
vars == <<data, out, pc, sampleData, selectedLine, currGraph, selected, raised,
          lastCall, clicked>>

---------------------------------------------------------------------------
(* Bounds of the model.                                                    *)

MaxSize == 3       \* nodes + edges of an enumerated input graph
MaxSlot == 1       \* input slots 0..MaxSlot
MaxLine == 2       \* clicked lines -1..MaxLine, and one line past the file
MaxClicks == 3     \* updateLine calls recorded in the history
MaxNodeId == 1     \* node ids 0..MaxNodeId a selection may hold

---------------------------------------------------------------------------
(* JavaScript values.                                                      *)

Undefined == [ty |-> "undefined"]
JSNull == [ty |-> "null"]
Num(n) == [ty |-> "number", num |-> n]
Str(s) == [ty |-> "string", str |-> s]
Obj(fields) == [ty |-> "object", fields |-> fields]
Arr(elems) == [ty |-> "array", elems |-> elems]

\* v.k where v is neither undefined nor null: a missing key, and any such
\* key of a string, reads as undefined.
Get(v, k) ==
    IF v.ty = "object" /\ k \in DOMAIN v.fields THEN v.fields[k] ELSE Undefined

\* Reading a property of v throws a TypeError.
Throws(v) == v.ty \in {"undefined", "null"}

\* The elements a loop bounded by v.length visits.
Elems(v) == IF v.ty = "array" THEN v.elems ELSE <<>>

Quote(s) == "\"" \o s \o "\""

\* JSON.stringify of a number, a string or null.
StringifyPrim(v) ==
    CASE v.ty = "number" -> ToString(v.num)
      [] v.ty = "string" -> Quote(v.str)
      [] OTHER -> "null"

\* The keys of the objects of the model, in the order their objects list them.
KeyOrder == <<"kind", "data", "InputCiphertext">>

RECURSIVE StringifyFields(_, _, _)
StringifyFields(fields, i, acc) ==
    IF i > Len(KeyOrder) THEN acc
    ELSE IF KeyOrder[i] \in DOMAIN fields
         THEN StringifyFields(fields, i + 1,
                  (IF acc = "" THEN "" ELSE acc \o ",")
                      \o Quote(KeyOrder[i]) \o ":" \o StringifyPrim(fields[KeyOrder[i]]))
         ELSE StringifyFields(fields, i + 1, acc)

\* JSON.stringify(v).
JSONstringify(v) ==
    IF v.ty = "object" THEN "{" \o StringifyFields(v.fields, 1, "") \o "}"
    ELSE StringifyPrim(v)

---------------------------------------------------------------------------
(* dataToGraph (lines 144-166).                                            *)

Returned(nodes, edges) == [error |-> "none", nodes |-> nodes, edges |-> edges]
Thrown(e) == [error |-> e, nodes |-> <<>>, edges |-> <<>>]

\* The switch on op.kind and the object it pushes (lines 150-160).
RenderNode(i, op) ==
    IF Get(op, "kind") = Str("InputCiphertext")
    THEN [id |-> i, title |-> JSONstringify(Get(op, "data")), type |-> "input"]
    ELSE [id |-> i, title |-> JSONstringify(op), type |-> "empty"]

RenderEdgeSwapped(e) == [source |-> e[2], target |-> e[1], type |-> e[3]]

\* The object the edge loop pushes (line 163).
RenderEdge(e) == [source |-> e[1], target |-> e[2], type |-> e[3]]

\* for (i = 0; i < data.nodes.length; ++i) (lines 148-161); i is the
\* zero-based index of the code.
RECURSIVE NodesLoop(_, _, _)
NodesLoop(ns, i, acc) ==
    IF i >= Len(ns) THEN Returned(acc, <<>>)
    ELSE LET op == Get(ns[i + 1], "operation")
         IN  IF Throws(op) THEN Thrown("TypeError")
             ELSE NodesLoop(ns, i + 1, Append(acc, RenderNode(i, op)))

\* for (i = 0; i < data.edges.length; ++i) (lines 162-164).
RECURSIVE EdgesLoop(_, _, _)
EdgesLoop(es, i, acc) ==
    IF i >= Len(es) THEN acc
    ELSE EdgesLoop(es, i + 1, Append(acc, RenderEdge(es[i + 1])))

dataToGraph(d) ==
    IF Throws(Get(d, "nodes")) THEN Thrown("TypeError")
    ELSE LET ns == NodesLoop(Elems(Get(d, "nodes")), 0, <<>>)
         IN  IF ns.error # "none" THEN ns
             ELSE IF Throws(Get(d, "edges")) THEN Thrown("TypeError")
             ELSE Returned(ns.nodes, EdgesLoop(Elems(Get(d, "edges")), 0, <<>>))

---------------------------------------------------------------------------
(* Program graphs: the types of lines 104-137 and the payload of line 171. *)

InputCiphertext == "InputCiphertext"
PlainVariants == {"Multiply", "Add", "Relinearize", "OutputCiphertext"}
EdgeType == {"Left", "Right", "Unary"}

\* An operation no variant of FheProgramOperation names.
UnknownVariant == "Negate"

Slots == 0 .. MaxSlot

\* Operations as FheProgramOperation types them: tagged by kind.
TypedOps ==
    {Obj([kind |-> Str(InputCiphertext), data |-> Num(s)]) : s \in Slots}
        \cup {Obj([kind |-> Str(v)]) : v \in PlainVariants \cup {UnknownVariant}}

\* Operations as the payload serializes them: the variant's name, or a
\* single-key mapping from InputCiphertext to the slot.
SerializedOps ==
    {Obj([InputCiphertext |-> Num(s)]) : s \in Slots}
        \cup {Str(v) : v \in PlainVariants \cup {UnknownVariant}}

Node(op) == Obj([operation |-> op])
Graph(ns, es) == Obj([nodes |-> Arr(ns), edges |-> Arr(es)])

\* An index past every node sequence of the model.
BadIndices == {99}

EdgesOver(n) ==
    LET Idx == (0 .. (n - 1)) \cup BadIndices
    IN  {<<s, t, r>> : s \in Idx, t \in Idx, r \in EdgeType}

\* data is a graph of at most MaxSize nodes and edges over the operations Ops.
IsGraphOf(d, Ops) ==
    \E n \in 0 .. MaxSize : \E e \in 0 .. (MaxSize - n) :
        \E ops \in [1 .. n -> Ops] : \E es \in [1 .. e -> EdgesOver(n)] :
            d = Graph([i \in 1 .. n |-> Node(ops[i])], es)

SampleGraph ==
    Obj([nodes |-> Arr(<<
             Node(Obj([InputCiphertext |-> Num(0)])),
             Node(Obj([InputCiphertext |-> Num(1)])),
             Node(Obj([InputCiphertext |-> Num(2)])),
             Node(Obj([InputCiphertext |-> Num(3)])),
             Node(Str("Multiply")), Node(Str("Multiply")), Node(Str("Multiply")),
             Node(Str("Add")),
             Node(Str("OutputCiphertext")), Node(Str("OutputCiphertext")),
             Node(Str("Relinearize")), Node(Str("Relinearize")),
             Node(Str("Relinearize"))>>),
         node_holes |-> Arr(<<>>),
         edge_property |-> Str("directed"),
         edges |-> Arr(<<
             <<0, 4, "Left">>, <<3, 4, "Right">>, <<1, 5, "Left">>,
             <<2, 5, "Right">>, <<1, 6, "Left">>, <<3, 6, "Right">>,
             <<12, 7, "Left">>, <<10, 7, "Right">>, <<7, 8, "Unary">>,
             <<11, 9, "Unary">>, <<5, 10, "Unary">>, <<6, 11, "Unary">>,
             <<4, 12, "Unary">>>>)])

\* JSON.parse of the literal of line 171.
SampleData == Obj([graph |-> Obj([graph |-> SampleGraph]), data |-> Str("Bfv")])

Pending == [error |-> "pending", nodes |-> <<>>, edges |-> <<>>]

---------------------------------------------------------------------------
(* The App component (lines 169-229).                                      *)

\* The lines of exampleCode (lines 50-102).
CodeLines == 53

\* Line numbers a click reports: before the first line, inside the file
\* and past its last line.
Lines == (-1 .. MaxLine) \cup {CodeLines + 1}

\* SelectionT of react-digraph: nodes is null or a Map keyed by node id (the
\* model keeps the keys); edges likewise, always null here.
NodeMap(ids) == [ty |-> "map", keys |-> ids]
SelectionT(nodes) == Obj([nodes |-> nodes, edges |-> JSNull])

\* What the graph panel may hand to onSelect.
Selections ==
    {JSNull} \cup {SelectionT(JSNull)}
        \cup {SelectionT(NodeMap(ids)) : ids \in SUBSET (0 .. MaxNodeId)}

\* Line 171 fixes the payload to SampleData. With it the first render throws
\* and no handler is ever installed, so the handlers are exercised with the
\* program graph that literal wraps as the payload as well.
SamplePayloads == {SampleData, Get(Get(SampleData, "graph"), "graph")}

\* const exGraph = dataToGraph(sampleData, true) (line 172), once it returned.
exGraph ==
    LET r == dataToGraph(sampleData) IN [nodes |-> r.nodes, edges |-> r.edges]

LineGraphStale(lineNumber) ==
    [nodes |-> <<[id |-> 1, title |-> "line " \o ToString(selectedLine),
                  type |-> "empty", x |-> -10, y |-> 0],
                 [id |-> 2, title |-> "test_func", type |-> "problematic",
                  x |-> 0, y |-> 0]>>,
     edges |-> <<[source |-> 1, target |-> 2, directed |-> TRUE,
                  arrowhead |-> "normal"]>>]

LineGraphUnlabelled(lineNumber) ==
    [nodes |-> <<[id |-> 1, title |-> "line ", type |-> "empty", x |-> -10, y |-> 0],
                 [id |-> 2, title |-> "test_func", type |-> "problematic",
                  x |-> 0, y |-> 0]>>,
     edges |-> <<[source |-> 1, target |-> 2, directed |-> TRUE,
                  arrowhead |-> "normal"]>>]

\* const graph = {...} of updateLine (lines 182-202).
LineGraph(lineNumber) ==
    [nodes |-> <<[id |-> 1, title |-> "line " \o ToString(lineNumber),
                  type |-> "empty", x |-> -10, y |-> 0],
                 [id |-> 2, title |-> "test_func", type |-> "problematic",
                  x |-> 0, y |-> 0]>>,
     edges |-> <<[source |-> 1, target |-> 2, directed |-> TRUE,
                  arrowhead |-> "normal"]>>]

NoGraph == [nodes |-> <<>>, edges |-> <<>>]
NoCall == [op |-> "none"]

\* The state a handler is called in.
Before == [selectedLine |-> selectedLine, currGraph |-> currGraph, selected |-> selected]

\* The component before its first render.
AppIdle ==
    /\ pc = "start"
    /\ selectedLine = 0
    /\ currGraph = NoGraph
    /\ selected = JSNull
    /\ raised = "none"
    /\ lastCall = NoCall
    /\ clicked = <<>>

Init ==
    /\ data = Undefined
    /\ out = Pending
    /\ sampleData \in SamplePayloads
    /\ AppIdle

\* render(<App/>, ...) (line 238): the first call of App. An exception of
\* dataToGraph leaves the component unmounted; otherwise the useState calls
\* of lines 173-177 set the initial state. Later renders repeat the call
\* with the same payload and the same result.
App ==
    /\ pc = "start"
    /\ IF dataToGraph(sampleData).error # "none"
       THEN /\ pc' = "crashed"
            /\ raised' = dataToGraph(sampleData).error
            /\ UNCHANGED <<selectedLine, currGraph, selected>>
       ELSE /\ pc' = "mounted"
            /\ selectedLine' = 0
            /\ currGraph' = exGraph
            /\ selected' = JSNull
            /\ raised' = "none"
    /\ UNCHANGED <<data, out, sampleData, lastCall, clicked>>

\* updateLine (lines 179-205).
updateLine(lineNumber) ==
    /\ pc = "mounted"
    /\ Len(clicked) < MaxClicks
    /\ selectedLine' = lineNumber
    /\ currGraph' = IF lineNumber # 1 THEN LineGraph(lineNumber) ELSE exGraph
    /\ raised' = "none"
    /\ lastCall' = [op |-> "updateLine", line |-> lineNumber, before |-> Before]
    /\ clicked' = Append(clicked, [line |-> lineNumber, graph |-> currGraph'])
    /\ UNCHANGED <<data, out, pc, sampleData, selected>>

updateSelectionKeepsOnEmpty(selection) ==
    /\ pc = "mounted"
    /\ selected' = IF Throws(selection) \/ Throws(Get(selection, "nodes"))
                   THEN selected ELSE selection
    /\ raised' = IF Throws(selection) THEN "TypeError" ELSE "none"
    /\ lastCall' = [op |-> "updateSelection", selection |-> selection, before |-> Before]
    /\ UNCHANGED <<data, out, pc, sampleData, selectedLine, currGraph, clicked>>

updateSelectionResetsGraph(selection) ==
    /\ pc = "mounted"
    /\ selected' = selection
    /\ selectedLine' = 0
    /\ currGraph' = exGraph
    /\ raised' = IF Throws(selection) THEN "TypeError" ELSE "none"
    /\ lastCall' = [op |-> "updateSelection", selection |-> selection, before |-> Before]
    /\ UNCHANGED <<data, out, pc, sampleData, clicked>>

\* updateSelection (lines 207-209): select(selection), then the argument of
\* console.log reads selection.nodes, which throws on a null selection; the
\* optional chain stops at a null nodes.
updateSelection(selection) ==
    /\ pc = "mounted"
    /\ selected' = selection
    /\ raised' = IF Throws(selection) THEN "TypeError" ELSE "none"
    /\ lastCall' = [op |-> "updateSelection", selection |-> selection, before |-> Before]
    /\ UNCHANGED <<data, out, pc, sampleData, selectedLine, currGraph, clicked>>

Next ==
    \/ App
    \/ \E lineNumber \in Lines : updateLine(lineNumber)
    \/ \E selection \in Selections : updateSelection(selection)

Spec == Init /\ [][Next]_vars

---------------------------------------------------------------------------
(* The translator on its own: one call of dataToGraph per input.           *)

InitTranslator ==
    /\ \/ IsGraphOf(data, TypedOps)
       \/ IsGraphOf(data, SerializedOps)
       \/ data \in {SampleGraph, SampleData}
    /\ out = Pending
    /\ sampleData = Undefined
    /\ AppIdle

Translate ==
    /\ out = Pending
    /\ out' = dataToGraph(data)
    /\ UNCHANGED <<data, pc, sampleData, selectedLine, currGraph, selected, raised,
                   lastCall, clicked>>

NextTranslator == Translate

SpecTranslator == InitTranslator /\ [][NextTranslator]_vars

---------------------------------------------------------------------------
(* Properties of the translator, checked under SpecTranslator.             *)

InNodes == Elems(Get(data, "nodes"))
InEdges == Elems(Get(data, "edges"))
OpAt(i) == Get(InNodes[i], "operation")
IsGraph == ~Throws(Get(data, "nodes")) /\ ~Throws(Get(data, "edges"))
Translated == out # Pending

Contains(s, sub) ==
    \E i \in 1 .. (Len(s) - Len(sub) + 1) : SubSeq(s, i, i + Len(sub) - 1) = sub

SerializedInput(op) == op.ty = "object" /\ DOMAIN op.fields = {InputCiphertext}
SerializedPlain(op) == op.ty = "string" /\ op.str \in PlainVariants
TypedInput(op) ==
    /\ op.ty = "object"
    /\ DOMAIN op.fields = {"kind", "data"}
    /\ op.fields.kind = Str(InputCiphertext)
TypedPlain(op) ==
    /\ op.ty = "object"
    /\ DOMAIN op.fields = {"kind"}
    /\ op.fields.kind.str \in PlainVariants

IsInput(op) == SerializedInput(op) \/ TypedInput(op)
Recognized(op) == IsInput(op) \/ SerializedPlain(op) \/ TypedPlain(op)
VariantOf(op) ==
    CASE IsInput(op) -> InputCiphertext
      [] SerializedPlain(op) -> op.str
      [] OTHER -> op.fields.kind.str

InRange(k) == k \in 0 .. (Len(InNodes) - 1)

\* The edges of role r into the node of index j.
Incoming(j, r) == Cardinality({k \in DOMAIN InEdges : InEdges[k][2] = j /\ InEdges[k][3] = r})

ArityOk(j) ==
    LET v == VariantOf(OpAt(j + 1))
    IN  CASE v = InputCiphertext ->
                 \A r \in EdgeType : Incoming(j, r) = 0
          [] v \in {"Multiply", "Add"} ->
                 Incoming(j, "Left") = 1 /\ Incoming(j, "Right") = 1 /\ Incoming(j, "Unary") = 0
          [] OTHER ->
                 Incoming(j, "Left") = 0 /\ Incoming(j, "Right") = 0 /\ Incoming(j, "Unary") = 1

\* A program graph of recognized operations whose edges stay inside the node
\* sequence and respect the arity of their targets.
WellFormed ==
    /\ IsGraph
    /\ \A i \in DOMAIN InNodes : Recognized(OpAt(i))
    /\ \A k \in DOMAIN InEdges : InRange(InEdges[k][1]) /\ InRange(InEdges[k][2])
    /\ \A i \in DOMAIN InNodes : ArityOk(i - 1)

\* C1: for a well-formed program graph dataToGraph returns one render node
\* per input node, its id the node's index, and one render edge per input
\* edge, in the same order and with the same source, target and role.
C1_StructurePreserved ==
    (Translated /\ WellFormed) =>
        /\ out.error = "none"
        /\ Len(out.nodes) = Len(InNodes)
        /\ \A i \in DOMAIN InNodes : out.nodes[i].id = i - 1
        /\ Len(out.edges) = Len(InEdges)
        /\ \A k \in DOMAIN InEdges :
               /\ out.edges[k].source = InEdges[k][1]
               /\ out.edges[k].target = InEdges[k][2]
               /\ out.edges[k].type = InEdges[k][3]

C1_Witness ==
    /\ Translated
    /\ WellFormed
    /\ Len(InNodes) >= 2
    /\ Len(InEdges) >= 1
    /\ Len(out.edges) >= 1

\* The graph is in the serialized input format: every operation is a variant
\* name or a single-key InputCiphertext mapping.
SerializedFormat ==
    /\ IsGraph
    /\ \A i \in DOMAIN InNodes : SerializedInput(OpAt(i)) \/ SerializedPlain(OpAt(i))

\* C2: for a graph in the serialized input format, the node of an
\* {"InputCiphertext": slot} operation is rendered with type input and a title
\* containing the slot, the node of every other variant with type empty, and
\* no node with type problematic.
C2_SerializedKinds ==
    (Translated /\ SerializedFormat) =>
        /\ out.error = "none"
        /\ Len(out.nodes) = Len(InNodes)
        /\ \A i \in DOMAIN out.nodes :
               /\ out.nodes[i].type # "problematic"
               /\ SerializedInput(OpAt(i)) =>
                      /\ out.nodes[i].type = "input"
                      /\ Contains(out.nodes[i].title,
                                  ToString(OpAt(i).fields[InputCiphertext].num))
               /\ SerializedPlain(OpAt(i)) => out.nodes[i].type = "empty"

\* An edge leaves the node sequence, or an operation is no recognized variant.
Malformed ==
    \/ \E k \in DOMAIN InEdges : ~InRange(InEdges[k][1]) \/ ~InRange(InEdges[k][2])
    \/ \E i \in DOMAIN InNodes : ~Recognized(OpAt(i))

\* C3: on a graph with an out-of-range edge index or an unrecognized
\* operation dataToGraph fails with InvalidGraph and emits no node and no
\* edge.
C3_InvalidGraphRejected ==
    (Translated /\ IsGraph /\ Malformed) =>
        /\ out.error = "InvalidGraph"
        /\ out.nodes = <<>>
        /\ out.edges = <<>>

---------------------------------------------------------------------------
(* Properties of the App component, checked under Spec.                    *)

MappedLines == {1}

LastClick == clicked[Len(clicked)]

\* C4: the state after updateLine(L) depends on L alone: selectedLine is L
\* and currGraph is the graph every other click of L left, whatever was
\* clicked or selected in between.
C4_LineClickDeterminesGraph ==
    /\ clicked # <<>> => selectedLine = LastClick.line /\ currGraph = LastClick.graph
    /\ \A i, j \in DOMAIN clicked :
           clicked[i].line = clicked[j].line => clicked[i].graph = clicked[j].graph

C4_Witness ==
    /\ Len(clicked) = 3
    /\ clicked[1].line = 1
    /\ clicked[2].line = 2
    /\ clicked[3].line = 1
    /\ lastCall.op = "updateSelection"
    /\ currGraph = clicked[1].graph

IsEmptySelection(sel) ==
    /\ ~Throws(sel)
    /\ \/ Throws(Get(sel, "nodes"))
       \/ Get(sel, "nodes").keys = {}

\* C6: after updateSelection(S) the stored selection is exactly S; after an
\* empty S it is empty, whatever was selected before.
C6_SelectionStored ==
    lastCall.op = "updateSelection" =>
        /\ selected = lastCall.selection
        /\ IsEmptySelection(lastCall.selection) => IsEmptySelection(selected)

C6_Witness ==
    /\ lastCall.op = "updateSelection"
    /\ IsEmptySelection(lastCall.selection)
    /\ ~Throws(lastCall.before.selected)
    /\ ~IsEmptySelection(lastCall.before.selected)
    /\ IsEmptySelection(selected)

\* C7: updateSelection raises nothing, for an empty and for a null selection.
C7_SelectionNeverThrows ==
    (lastCall.op = "updateSelection"
         /\ (Throws(lastCall.selection) \/ IsEmptySelection(lastCall.selection)))
        => raised = "none"

\* C8: updateSelection leaves selectedLine and currGraph as they were when
\* it was called.
C8_SelectionKeepsLineAndGraph ==
    lastCall.op = "updateSelection" =>
        /\ selectedLine = lastCall.before.selectedLine
        /\ currGraph = lastCall.before.currGraph

C8_Witness ==
    /\ lastCall.op = "updateSelection"
    /\ ~IsEmptySelection(lastCall.selection)
    /\ clicked # <<>>
    /\ selectedLine = 2
    /\ currGraph = LineGraph(2)

\* C9: with the payload of line 171 startup succeeds and shows the
\* translation of the sample program graph: selectedLine 0, nothing
\* selected, 13 nodes and 13 edges, node 0 of type input titled with slot 0
\* and node 7 of type empty titled Add.
C9_StartupShowsSample ==
    (sampleData = SampleData /\ pc # "start") =>
        /\ pc = "mounted"
        /\ raised = "none"
        /\ lastCall = NoCall =>
               /\ selectedLine = 0
               /\ selected = JSNull
               /\ Len(currGraph.nodes) = 13
               /\ Len(currGraph.edges) = 13
               /\ currGraph.nodes[1].id = 0
               /\ currGraph.nodes[1].type = "input"
               /\ Contains(currGraph.nodes[1].title, "0")
               /\ currGraph.nodes[8].id = 7
               /\ currGraph.nodes[8].type = "empty"
               /\ Contains(currGraph.nodes[8].title, "Add")

\* What every output of dataToGraph looks like: ids count from 0, every node
\* is of type input or empty, every edge carries source, target and role.
TranslatorShaped(g) ==
    /\ \A i \in DOMAIN g.nodes :
           /\ DOMAIN g.nodes[i] = {"id", "title", "type"}
           /\ g.nodes[i].id = i - 1
           /\ g.nodes[i].type \in {"input", "empty"}
    /\ \A k \in DOMAIN g.edges : DOMAIN g.edges[k] = {"source", "target", "type"}

\* C10: the graph handed to the graph panel (currGraph, line 225) is always
\* an output of the translator.
C10_DisplayedIsTranslated ==
    pc = "mounted" => TranslatorShaped(currGraph)

====
